---------------------------- MODULE Spec2Model ----------------------------
(***************************************************************************)
(* Model of cryptobot.auto_trade (src/cryptobot/cryptobot_base.py), the    *)
(* polling loop of the Kraken trading bot, together with the exchange      *)
(* calls it makes (get_coin_price, get_coin_balance, get_account_balance,  *)
(* place_order, get_order_info).                                           *)
(*                                                                         *)
(* One behaviour is one call of auto_trade.  pc is the line the call is    *)
(* at; every exchange call is one step whose outcome (a value, a raised    *)
(* exception, a malformed or error response) the environment chooses.      *)
(*                                                                         *)
(* Numbers.  Python floats are modelled by exact rationals.  The inputs    *)
(* are chosen so that binary64 computes every expression of the loop       *)
(* exactly on them: prices and balances are small integers, the strategy   *)
(* percentages are the dyadic fractions 1/4 and 1/2 (so 1+pct, 1-pct and   *)
(* their products with a price are exact), and every quotient              *)
(* min(balance,50)/price has a finite binary expansion.  Times are in      *)
(* seconds and only the two sleeps advance the clock.                      *)
(***************************************************************************)
EXTENDS Integers, Sequences, FiniteSets, TLC

\* ------------------------------------------------------------------ bounds
\* Number of loop iterations (ticks) explored.
MaxTicks == 3
\* Nonce differences are counted up to MaxAge milliseconds.
MaxAge == 2
\* Largest number of candles in an OHLC response.
MaxCandles == 3

\* --------------------------------------------------------- program constants
\* sleep(60) at the top of every iteration.
TickSleep == 60
\* sleep(10) after place_order.
SettleSleep == 10
\* min(money_balance, 50): the euro cap of one buy.
SpendCap == 50
\* The default last_trade_price = None (prices are positive, 0 stands for None).
None == 0

\* ------------------------------------------------------------ input domains
Prices == {2, 4, 5}
Pcts == {[num |-> 1, den |-> 4], [num |-> 1, den |-> 2]}
Patiences == {60, 130}
CoinBalances == {3, 7}
MoneyBalances == {20, 80}
TxIds == {"OA", "OB"}
\* res['result']['txid'] as the exchange may send it: a list of order ids.
TxidLists == {<<>>} \cup {<<a>> : a \in TxIds}
               \cup {l \in {<<a, b>> : a, b \in TxIds} : l[1] # l[2]}
Actions == {"buy", "sell"}

\* A local name that was never assigned.
Unbound == "unbound"
\* A response variable that was never assigned.
NoResponse == [kind |-> "unset", txid |-> <<>>, id |-> Unbound, price |-> None]

VARIABLES
    pc,                     \* position in auto_trade
    now,                    \* the wall clock (datetime.now()), seconds
    tick,                   \* iterations started so far
    last_trade_action, last_trade_price, last_trade_timestamp,
    trade_strategy_pct, patience,
    new_trade_price, current_time, time_since_last_trade,
    volume_to_sell, money_balance, coins_to_buy,
    res, res_order, order_ledger_sell, order_ledger_buy,
    exch_fill,              \* the exchange: fill price of each order id of
                            \* the latest AddOrder
    branch,                 \* which branch this tick took
    io,                     \* outcome of each exchange call of this tick
    exc,                    \* an exception reached an except clause this tick
    submitted,              \* order requests sent this tick
    start,                  \* TradeState when this tick began
    any_failure,            \* some exchange call of the run has failed
    nonce_age,              \* <<a>>: int(1000*time()) read now would exceed
                            \* the nonce of the latest authenticated call
                            \* by a; <<>> before the first call
    nonce_step,             \* <<d>>: the nonce of the latest authenticated
                            \* call minus the nonce of the call before it;
                            \* <<>> before the second call
    steps,                  \* steps of the try block run in this tick
    accepted,               \* sides of the last two orders the exchange
                            \* accepted
    \* get_median_of_last_x_min
    mpc,                    \* position in get_median_of_last_x_min
    n_minutes,              \* its argument
    ohlc,                   \* res['result'][pair]: the candles, oldest first
    loop_i,                 \* the loop variable i
    last_x_minutes_prices,
    returned_median         \* what the call returned

vars == <<pc, now, tick, last_trade_action, last_trade_price,
          last_trade_timestamp, trade_strategy_pct, patience,
          new_trade_price, current_time, time_since_last_trade,
          volume_to_sell, money_balance, coins_to_buy, res, res_order,
          order_ledger_sell, order_ledger_buy, exch_fill, branch, io, exc,
          submitted, start, any_failure, nonce_age, nonce_step, steps,
          accepted, mpc, n_minutes, ohlc, loop_i, last_x_minutes_prices,
          returned_median>>

seeds == <<trade_strategy_pct, patience>>
state == <<last_trade_action, last_trade_price, last_trade_timestamp>>
clock == <<now, tick>>
polled == <<new_trade_price, current_time, time_since_last_trade>>
locals == <<volume_to_sell, money_balance, coins_to_buy, res, res_order,
            order_ledger_sell, order_ledger_buy>>

wire == <<nonce_age, nonce_step>>
median_vars == <<mpc, n_minutes, ohlc, loop_i, last_x_minutes_prices,
                 returned_median>>

\* The milliseconds by which int(1000*time()) may have moved on when an
\* authenticated call returns; the code does not bound it from below.
Latencies == {0, 1}

\* The wall clock moves on by ms milliseconds.  Nonces are only compared
\* with each other, so the model keeps their differences, and differences
\* of MaxAge milliseconds or more are not told apart.
Elapse(age, ms) ==
    IF age = <<>> THEN <<>>
    ELSE IF age[1] + ms < MaxAge THEN <<age[1] + ms>> ELSE <<MaxAge>>

\* The last two elements of a sequence.
LastTwo(q) == IF Len(q) <= 2 THEN q ELSE SubSeq(q, Len(q) - 1, Len(q))

\* No exchange call made yet in this tick.  balance, place and query are the
\* outcomes of the three authenticated calls, value is the balance the
\* balance query returned, queried the order id sent to QueryOrders.
NoIo == [balance |-> "-", place |-> "-", query |-> "-", value |-> 0,
         queried |-> Unbound]
Rat(n, d) == [num |-> n, den |-> d]

\* auto_trade(last_trade_action, trade_strategy_pct, patience,
\* last_trade_price) is entered; last_trade_timestamp = datetime.now().
AutoTradeEntered ==
    /\ pc = "loop"
    /\ now = 0
    /\ tick = 0
    /\ last_trade_action \in Actions
    /\ last_trade_price \in Prices \cup {None}
    /\ last_trade_timestamp = now
    /\ trade_strategy_pct \in Pcts
    /\ patience \in Patiences
    /\ new_trade_price = None
    /\ current_time = 0
    /\ time_since_last_trade = 0
    /\ volume_to_sell = Rat(0, 1)
    /\ money_balance = 0
    /\ coins_to_buy = Rat(0, 1)
    /\ res = NoResponse
    /\ res_order = NoResponse
    /\ order_ledger_sell = Unbound
    /\ order_ledger_buy = Unbound
    /\ exch_fill = [i \in TxIds |-> None]
    /\ branch = "none"
    /\ io = NoIo
    /\ exc = FALSE
    /\ submitted = <<>>
    /\ start = [action |-> last_trade_action, price |-> last_trade_price,
                timestamp |-> last_trade_timestamp]
    /\ any_failure = FALSE
    /\ nonce_age = <<>>
    /\ nonce_step = <<>>
    /\ steps = <<>>
    /\ accepted = <<>>

\* get_median_of_last_x_min is not called: auto_trade never calls it.
MedianNotCalled ==
    /\ mpc = "idle"
    /\ n_minutes = 0
    /\ ohlc = <<>>
    /\ loop_i = 0
    /\ last_x_minutes_prices = <<>>
    /\ returned_median = None

Init == AutoTradeEntered /\ MedianNotCalled

\* while last_trade_price != None: the test is true, the body is entered.
LoopEnter ==
    /\ pc = "loop"
    /\ UNCHANGED median_vars
    /\ last_trade_price # None
    /\ tick < MaxTicks
    /\ pc' = "sleep"
    /\ UNCHANGED <<clock, state, seeds, polled, locals, exch_fill, branch,
                   io, exc, submitted, start, any_failure>>
    /\ UNCHANGED <<wire, steps, accepted>>

\* while last_trade_price != None: the test is false, auto_trade returns.
LoopExit ==
    /\ pc = "loop"
    /\ UNCHANGED median_vars
    /\ last_trade_price = None
    /\ pc' = "returned"
    /\ UNCHANGED <<clock, state, seeds, polled, locals, exch_fill, branch,
                   io, exc, submitted, start, any_failure>>
    /\ UNCHANGED <<wire, steps, accepted>>

\* sleep(60).  A new tick begins: the values the previous tick left in the
\* per-tick locals are dead (each is assigned before it is read), so they
\* are cleared; order_ledger_sell is kept, the buy branches read it.
Sleep ==
    /\ pc = "sleep"
    /\ UNCHANGED median_vars
    /\ pc' = "poll"
    /\ now' = now + TickSleep
    /\ tick' = tick + 1
    /\ start' = [action |-> last_trade_action, price |-> last_trade_price,
                 timestamp |-> last_trade_timestamp]
    /\ branch' = "none"
    /\ io' = NoIo
    /\ exc' = FALSE
    /\ submitted' = <<>>
    /\ volume_to_sell' = Rat(0, 1)
    /\ money_balance' = 0
    /\ coins_to_buy' = Rat(0, 1)
    /\ res' = NoResponse
    /\ res_order' = NoResponse
    /\ order_ledger_buy' = Unbound
    /\ new_trade_price' = None
    /\ UNCHANGED <<state, seeds, current_time, time_since_last_trade,
                   order_ledger_sell, exch_fill, any_failure>>
    /\ steps' = <<>>
    /\ nonce_age' = Elapse(nonce_age, 1000 * TickSleep)
    /\ UNCHANGED <<nonce_step, accepted>>


\* get_coin_price() returns the best ask; current_time and
\* time_since_last_trade are taken right after it.
GetCoinPrice ==
    /\ pc = "poll"
    /\ UNCHANGED median_vars
    /\ \E p \in Prices : new_trade_price' = p
    /\ current_time' = now
    /\ time_since_last_trade' = now - last_trade_timestamp
    /\ pc' = "decide"
    /\ UNCHANGED <<clock, state, seeds, locals, exch_fill, branch, io, exc,
                   submitted, start, any_failure>>
    /\ UNCHANGED <<wire, steps, accepted>>

\* get_coin_price() raises (requests.get fails, or the JSON has no
\* 'result'): the call is outside every try, the exception leaves auto_trade.
GetCoinPriceRaises ==
    /\ pc = "poll"
    /\ UNCHANGED median_vars
    /\ pc' = "crashed"
    /\ any_failure' = TRUE
    /\ UNCHANGED <<clock, state, seeds, polled, locals, exch_fill, branch,
                   io, exc, submitted, start>>
    /\ UNCHANGED <<wire, steps, accepted>>

\* Mutant of SellTriggered: > where the code has >=.
SellTriggered_strict ==
    new_trade_price * trade_strategy_pct.den
        > (trade_strategy_pct.den + trade_strategy_pct.num) * last_trade_price

\* Mutant of SellTriggered: any price not below the last one sells.
SellTriggered_anyRise == new_trade_price >= last_trade_price

\* Mutant of SellTriggered: the patience timeout sells as well.
SellTriggered_orTimeout ==
    \/ new_trade_price * trade_strategy_pct.den
          >= (trade_strategy_pct.den + trade_strategy_pct.num) * last_trade_price
    \/ time_since_last_trade >= patience

\* new_trade_price >= (1+trade_strategy_pct)*last_trade_price
SellTriggered ==
    new_trade_price * trade_strategy_pct.den
        >= (trade_strategy_pct.den + trade_strategy_pct.num) * last_trade_price

\* time_since_last_trade >= patience
TimedOut == time_since_last_trade >= patience

\* Mutant of DipTriggered: < where the code has <=.
DipTriggered_strict ==
    new_trade_price * trade_strategy_pct.den
        < (trade_strategy_pct.den - trade_strategy_pct.num) * last_trade_price

\* new_trade_price <= (1-trade_strategy_pct)*last_trade_price
DipTriggered ==
    new_trade_price * trade_strategy_pct.den
        <= (trade_strategy_pct.den - trade_strategy_pct.num) * last_trade_price

\* Mutant of BuyBranch: the dip test placed before the timeout test.
BuyBranch_dipFirst ==
    IF DipTriggered THEN "dip"
    ELSE IF TimedOut THEN "timeout"
    ELSE "hold"

\* The if / elif / else under "elif last_trade_action == 'sell'".
BuyBranch ==
    IF TimedOut THEN "timeout"
    ELSE IF DipTriggered THEN "dip"
    ELSE "hold"

\* if last_trade_action == 'buy': the price reached the target, the try
\* block of the sell is entered.
DecideSell ==
    /\ pc = "decide"
    /\ UNCHANGED median_vars
    /\ last_trade_action = "buy"
    /\ SellTriggered
    /\ branch' = "sell"
    /\ pc' = "sell_balance"
    /\ UNCHANGED <<clock, state, seeds, polled, locals, exch_fill, io, exc,
                   submitted, start, any_failure>>
    /\ UNCHANGED <<wire, steps, accepted>>

\* if last_trade_action == 'buy': else branch, only prints and logs.
DecideHoldCoin ==
    /\ pc = "decide"
    /\ UNCHANGED median_vars
    /\ last_trade_action = "buy"
    /\ ~SellTriggered
    /\ branch' = "hold"
    /\ pc' = "loop"
    /\ UNCHANGED <<clock, state, seeds, polled, locals, exch_fill, io, exc,
                   submitted, start, any_failure>>
    /\ UNCHANGED <<wire, steps, accepted>>

\* elif last_trade_action == 'sell': the timeout or the dip branch is taken
\* and its try block entered.
DecideBuy ==
    /\ pc = "decide"
    /\ UNCHANGED median_vars
    /\ last_trade_action = "sell"
    /\ BuyBranch # "hold"
    /\ branch' = BuyBranch
    /\ pc' = "buy_balance"
    /\ UNCHANGED <<clock, state, seeds, polled, locals, exch_fill, io, exc,
                   submitted, start, any_failure>>
    /\ UNCHANGED <<wire, steps, accepted>>

\* elif last_trade_action == 'sell': else branch, only prints and logs.
DecideHoldCurrency ==
    /\ pc = "decide"
    /\ UNCHANGED median_vars
    /\ last_trade_action = "sell"
    /\ BuyBranch = "hold"
    /\ branch' = "hold"
    /\ pc' = "loop"
    /\ UNCHANGED <<clock, state, seeds, polled, locals, exch_fill, io, exc,
                   submitted, start, any_failure>>
    /\ UNCHANGED <<wire, steps, accepted>>

\* Mutant of Except: a failed placement is tried again in the same tick.
Except_retry(field, how) ==
    /\ pc' = IF field = "place" THEN pc ELSE "loop"
    /\ exc' = TRUE
    /\ io' = [io EXCEPT ![field] = how]
    /\ any_failure' = TRUE

\* except Exception as e: print(e); pass.  The tick ends, the exchange call
\* named by field failed with outcome how.
Except(field, how) ==
    /\ pc' = "loop"
    /\ exc' = TRUE
    /\ io' = [io EXCEPT ![field] = how]
    /\ any_failure' = TRUE

\* An authenticated call is made: {"nonce": str(int(1000*time()))} is built
\* from the wall clock as it reads now, kraken_request posts the signed
\* request, and the call takes some time.
AuthCall(step) ==
    /\ nonce_step' = nonce_age
    /\ \E d \in Latencies : nonce_age' = Elapse(<<0>>, d)
    /\ steps' = Append(steps, step)

\* The request place_order sends: AddOrder with ordertype, type, volume (and
\* the pair); held is last_trade_action when it is sent.
OrderRequest(volume, type, outcome) ==
    [side |-> type, ordertype |-> "market", volume |-> volume,
     held |-> last_trade_action, outcome |-> outcome]

\* place_order(volume, ordertype='market', type=type) called inside a try.
\* It raises (transport error, body that is no JSON), or returns the JSON:
\* an error payload without 'result', or a result with its txid list.  An
\* accepted order is filled by the exchange at some price; exch_fill holds
\* the fills of the orders the latest AddOrder created.
PlaceOrder(volume, type, next) ==
    \/ /\ submitted' = Append(submitted, OrderRequest(volume, type, "raise"))
       /\ Except("place", "raise")
       /\ UNCHANGED <<res, exch_fill, accepted>>
    \/ /\ submitted' = Append(submitted, OrderRequest(volume, type, "rejected"))
       /\ res' = [NoResponse EXCEPT !.kind = "error"]
       /\ io' = [io EXCEPT !.place = "rejected"]
       /\ any_failure' = TRUE
       /\ pc' = next
       /\ UNCHANGED <<exc, exch_fill, accepted>>
    \/ \E l \in TxidLists :
         \E f \in [TxIds -> Prices \cup {None}] :
            /\ \A i \in TxIds :
                 IF \E k \in 1..Len(l) : l[k] = i
                 THEN f[i] \in Prices
                 ELSE f[i] = None
            /\ exch_fill' = f
            /\ res' = [NoResponse EXCEPT !.kind = "result", !.txid = l]
            /\ submitted' = Append(submitted,
                   OrderRequest(volume, type,
                                IF l = <<>> THEN "notxid" ELSE "accepted"))
            /\ io' = [io EXCEPT
                        !.place = IF l = <<>> THEN "notxid" ELSE "accepted"]
            /\ any_failure' = (any_failure \/ l = <<>>)
            /\ accepted' = IF l = <<>> THEN accepted
                            ELSE LastTwo(Append(accepted, type))
            /\ pc' = next
            /\ UNCHANGED exc

\* get_order_info(trade_ledger) called inside a try: QueryOrders for one
\* order id.  It raises, or returns the JSON: an error payload, or a result
\* holding that order's entry, with its executed price or without one.
GetOrderInfo(trade_ledger, next) ==
    \/ /\ pc' = "loop"
       /\ exc' = TRUE
       /\ io' = [io EXCEPT !.query = "raise", !.queried = trade_ledger]
       /\ any_failure' = TRUE
       /\ UNCHANGED res_order
    \/ /\ res_order' = [NoResponse EXCEPT !.kind = "error"]
       /\ io' = [io EXCEPT !.query = "error", !.queried = trade_ledger]
       /\ any_failure' = TRUE
       /\ pc' = next
       /\ UNCHANGED exc
    \/ /\ exch_fill[trade_ledger] # None
       /\ res_order' = [NoResponse EXCEPT !.kind = "result",
                           !.id = trade_ledger,
                           !.price = exch_fill[trade_ledger]]
       /\ io' = [io EXCEPT !.query = "price", !.queried = trade_ledger]
       /\ pc' = next
       /\ UNCHANGED <<exc, any_failure>>
    \/ /\ res_order' = [NoResponse EXCEPT !.kind = "result",
                           !.id = trade_ledger]
       /\ io' = [io EXCEPT !.query = "noprice", !.queried = trade_ledger]
       /\ any_failure' = TRUE
       /\ pc' = next
       /\ UNCHANGED exc

\* res['result']['txid'][0] can be evaluated.
HasTxid(r) == r.kind = "result" /\ r.txid # <<>>
\* Mutant of FirstTxid: res['result']['txid'][-1].
FirstTxid_last(r) == r.txid[Len(r.txid)]
\* res['result']['txid'][0]
FirstTxid(r) == r.txid[1]
\* float(res_order['result'][ledger]['price']) can be evaluated.
HasPrice(r, ledger) == r.kind = "result" /\ r.id = ledger /\ r.price # None
\* float(res_order['result'][ledger]['price'])
FillPrice(r, ledger) == r.price

\* Mutant of SellSide: type left out, so place_order's default type='buy'.
SellSide_default == "buy"
\* type='sell' of the place_order call of the sell branch.
SellSide == "sell"
\* type='buy' of the place_order calls of the buy branches.
BuySide == "buy"

\* ------------------------------------------------------- the sell branch
\* Mutant of VolumeToSell: half of the balance is offered.
VolumeToSell_half(balance) == Rat(balance, 2)
\* float(self.get_coin_balance()): the whole coin balance.
VolumeToSell(balance) == Rat(balance, 1)

\* volume_to_sell = float(self.get_coin_balance())
GetCoinBalance ==
    /\ pc = "sell_balance"
    /\ UNCHANGED median_vars
    /\ \E v \in CoinBalances :
         /\ volume_to_sell' = VolumeToSell(v)
         /\ io' = [io EXCEPT !.balance = "ok", !.value = v]
    /\ pc' = "sell_place"
    /\ UNCHANGED <<clock, state, seeds, polled, money_balance, coins_to_buy,
                   res, res_order, order_ledger_sell, order_ledger_buy,
                   exch_fill, branch, exc, submitted, start, any_failure>>
    /\ AuthCall("balance")
    /\ UNCHANGED accepted

\* get_coin_balance() raises (transport error, no 'result', no coin entry).
GetCoinBalanceRaises ==
    /\ pc = "sell_balance"
    /\ UNCHANGED median_vars
    /\ Except("balance", "raise")
    /\ UNCHANGED <<clock, state, seeds, polled, locals, exch_fill, branch,
                   submitted, start>>
    /\ AuthCall("balance")
    /\ UNCHANGED accepted

\* res = self.place_order(volume_to_sell, ordertype='market', type='sell')
SellPlace ==
    /\ pc = "sell_place"
    /\ UNCHANGED median_vars
    /\ PlaceOrder(volume_to_sell, SellSide, "sell_settle")
    /\ UNCHANGED <<clock, state, seeds, polled, volume_to_sell,
                   money_balance, coins_to_buy, res_order, order_ledger_sell,
                   order_ledger_buy, branch, start>>
    /\ AuthCall("place")

\* sleep(10)
SellSettle ==
    /\ pc = "sell_settle"
    /\ UNCHANGED median_vars
    /\ now' = now + SettleSleep
    /\ pc' = "sell_txid"
    /\ UNCHANGED <<tick, state, seeds, polled, locals, exch_fill, branch, io,
                   exc, submitted, start, any_failure>>
    /\ steps' = Append(steps, "settle")
    /\ nonce_age' = Elapse(nonce_age, 1000 * SettleSleep)
    /\ UNCHANGED <<nonce_step, accepted>>

\* order_ledger_sell = res['result']['txid'][0]
SellTxid ==
    /\ pc = "sell_txid"
    /\ UNCHANGED median_vars
    /\ HasTxid(res)
    /\ order_ledger_sell' = FirstTxid(res)
    /\ pc' = "sell_query"
    /\ UNCHANGED <<clock, state, seeds, polled, volume_to_sell,
                   money_balance, coins_to_buy, res, res_order,
                   order_ledger_buy, exch_fill, branch, io, exc, submitted,
                   start, any_failure>>
    /\ UNCHANGED <<wire, steps, accepted>>

\* res['result']['txid'][0] raises KeyError or IndexError.
SellTxidRaises ==
    /\ pc = "sell_txid"
    /\ UNCHANGED median_vars
    /\ ~HasTxid(res)
    /\ pc' = "loop"
    /\ exc' = TRUE
    /\ UNCHANGED <<clock, state, seeds, polled, locals, exch_fill, branch,
                   io, submitted, start, any_failure>>
    /\ UNCHANGED <<wire, steps, accepted>>

\* res_order_sell = self.get_order_info(order_ledger_sell)
SellQuery ==
    /\ pc = "sell_query"
    /\ UNCHANGED median_vars
    /\ GetOrderInfo(order_ledger_sell, "sell_update")
    /\ UNCHANGED <<clock, state, seeds, polled, volume_to_sell,
                   money_balance, coins_to_buy, res, order_ledger_sell,
                   order_ledger_buy, exch_fill, branch, submitted, start>>
    /\ AuthCall("query")
    /\ UNCHANGED accepted

\* Mutant of TradeTimestamp: datetime.now() read at the update.
TradeTimestamp_now == now
\* last_trade_timestamp = current_time: the time read at the top of the tick,
\* right after the price poll.
TradeTimestamp == current_time

\* last_trade_action = 'sell'
\* last_trade_price = float(res_order_sell['result'][order_ledger_sell]['price'])
\* last_trade_timestamp = current_time
\* The action is assigned first; when the price cannot be read the
\* exception leaves the try with only the action changed.
SellUpdate ==
    /\ pc = "sell_update"
    /\ UNCHANGED median_vars
    /\ last_trade_action' = "sell"
    /\ IF HasPrice(res_order, order_ledger_sell)
       THEN /\ last_trade_price' = FillPrice(res_order, order_ledger_sell)
            /\ last_trade_timestamp' = TradeTimestamp
            /\ UNCHANGED exc
       ELSE /\ exc' = TRUE
            /\ UNCHANGED <<last_trade_price, last_trade_timestamp>>
    /\ pc' = "loop"
    /\ UNCHANGED <<clock, seeds, polled, locals, exch_fill, branch, io,
                   submitted, start, any_failure>>
    /\ steps' = Append(steps, "update")
    /\ UNCHANGED <<wire, accepted>>

\* ------------------------------------------------------ the buy branches
\* The timeout branch and the dip branch run the same statements.

\* min(a, b) of Python.
Min(a, b) == IF a < b THEN a ELSE b

\* Mutant of CoinsToBuy: the whole balance, no cap.
CoinsToBuy_uncapped(balance, price) == Rat(balance, price)
\* coins_to_buy = min(money_balance,50)/new_trade_price
CoinsToBuy(balance, price) == Rat(Min(balance, SpendCap), price)

\* money_balance = self.get_account_balance()
\* coins_to_buy = min(money_balance,50)/new_trade_price
GetAccountBalance ==
    /\ pc = "buy_balance"
    /\ UNCHANGED median_vars
    /\ \E b \in MoneyBalances :
         /\ money_balance' = b
         /\ coins_to_buy' = CoinsToBuy(b, new_trade_price)
         /\ io' = [io EXCEPT !.balance = "ok", !.value = b]
    /\ pc' = "buy_place"
    /\ UNCHANGED <<clock, state, seeds, polled, volume_to_sell, res,
                   res_order, order_ledger_sell, order_ledger_buy, exch_fill,
                   branch, exc, submitted, start, any_failure>>
    /\ AuthCall("balance")
    /\ UNCHANGED accepted

\* get_account_balance() raises (transport error, no 'result', no currency
\* entry).
GetAccountBalanceRaises ==
    /\ pc = "buy_balance"
    /\ UNCHANGED median_vars
    /\ Except("balance", "raise")
    /\ UNCHANGED <<clock, state, seeds, polled, locals, exch_fill, branch,
                   submitted, start>>
    /\ AuthCall("balance")
    /\ UNCHANGED accepted

\* res = self.place_order(coins_to_buy, ordertype='market', type='buy')
BuyPlace ==
    /\ pc = "buy_place"
    /\ UNCHANGED median_vars
    /\ PlaceOrder(coins_to_buy, BuySide, "buy_settle")
    /\ UNCHANGED <<clock, state, seeds, polled, volume_to_sell,
                   money_balance, coins_to_buy, res_order, order_ledger_sell,
                   order_ledger_buy, branch, start>>
    /\ AuthCall("place")

\* sleep(10)
BuySettle ==
    /\ pc = "buy_settle"
    /\ UNCHANGED median_vars
    /\ now' = now + SettleSleep
    /\ pc' = "buy_txid"
    /\ UNCHANGED <<tick, state, seeds, polled, locals, exch_fill, branch, io,
                   exc, submitted, start, any_failure>>
    /\ steps' = Append(steps, "settle")
    /\ nonce_age' = Elapse(nonce_age, 1000 * SettleSleep)
    /\ UNCHANGED <<nonce_step, accepted>>

\* order_ledger_buy = res['result']['txid'][0]
BuyTxid ==
    /\ pc = "buy_txid"
    /\ UNCHANGED median_vars
    /\ HasTxid(res)
    /\ order_ledger_buy' = FirstTxid(res)
    /\ pc' = "buy_query"
    /\ UNCHANGED <<clock, state, seeds, polled, volume_to_sell,
                   money_balance, coins_to_buy, res, res_order,
                   order_ledger_sell, exch_fill, branch, io, exc, submitted,
                   start, any_failure>>
    /\ UNCHANGED <<wire, steps, accepted>>

\* res['result']['txid'][0] raises KeyError or IndexError.
BuyTxidRaises ==
    /\ pc = "buy_txid"
    /\ UNCHANGED median_vars
    /\ ~HasTxid(res)
    /\ pc' = "loop"
    /\ exc' = TRUE
    /\ UNCHANGED <<clock, state, seeds, polled, locals, exch_fill, branch,
                   io, submitted, start, any_failure>>
    /\ UNCHANGED <<wire, steps, accepted>>

\* res_order_buy = self.get_order_info(order_ledger_buy)
BuyQuery ==
    /\ pc = "buy_query"
    /\ UNCHANGED median_vars
    /\ GetOrderInfo(order_ledger_buy, "buy_update")
    /\ UNCHANGED <<clock, state, seeds, polled, volume_to_sell,
                   money_balance, coins_to_buy, res, order_ledger_sell,
                   order_ledger_buy, exch_fill, branch, submitted, start>>
    /\ AuthCall("query")
    /\ UNCHANGED accepted

\* print('order_ledger_buy: {}'.format(order_ledger_sell)) reads the local
\* order_ledger_sell, which only the sell branch assigns: before the first
\* sell of the call it is unbound and the read raises UnboundLocalError.
PrintLedgerRaises == order_ledger_sell = Unbound

\* print('order_ledger_buy: {}'.format(order_ledger_sell))
\* last_trade_action = 'buy'
\* last_trade_price = float(res_order_buy['result'][order_ledger_buy]['price'])
\* last_trade_timestamp = current_time
BuyUpdate ==
    /\ pc = "buy_update"
    /\ UNCHANGED median_vars
    /\ IF PrintLedgerRaises
       THEN /\ exc' = TRUE
            /\ UNCHANGED state
       ELSE /\ last_trade_action' = "buy"
            /\ IF HasPrice(res_order, order_ledger_buy)
               THEN /\ last_trade_price' = FillPrice(res_order, order_ledger_buy)
                    /\ last_trade_timestamp' = TradeTimestamp
                    /\ UNCHANGED exc
               ELSE /\ exc' = TRUE
                    /\ UNCHANGED <<last_trade_price, last_trade_timestamp>>
    /\ pc' = "loop"
    /\ UNCHANGED <<clock, seeds, polled, locals, exch_fill, branch, io,
                   submitted, start, any_failure>>
    /\ steps' = IF PrintLedgerRaises THEN steps ELSE Append(steps, "update")
    /\ UNCHANGED <<wire, accepted>>

\* ----------------------------------------------------------- the program
Next ==
    \/ LoopEnter
    \/ LoopExit
    \/ Sleep
    \/ GetCoinPrice
    \/ GetCoinPriceRaises
    \/ DecideSell
    \/ DecideHoldCoin
    \/ DecideBuy
    \/ DecideHoldCurrency
    \/ GetCoinBalance
    \/ GetCoinBalanceRaises
    \/ SellPlace
    \/ SellSettle
    \/ SellTxid
    \/ SellTxidRaises
    \/ SellQuery
    \/ SellUpdate
    \/ GetAccountBalance
    \/ GetAccountBalanceRaises
    \/ BuyPlace
    \/ BuySettle
    \/ BuyTxid
    \/ BuyTxidRaises
    \/ BuyQuery
    \/ BuyUpdate

Spec == Init /\ [][Next]_vars

\* ------------------------------------------- get_median_of_last_x_min
trade_vars == <<pc, now, tick, last_trade_action, last_trade_price,
                last_trade_timestamp, trade_strategy_pct, patience,
                new_trade_price, current_time, time_since_last_trade,
                volume_to_sell, money_balance, coins_to_buy, res, res_order,
                order_ledger_sell, order_ledger_buy, exch_fill, branch, io,
                exc, submitted, start, any_failure, nonce_age, nonce_step,
                steps, accepted>>

\* The OHLC responses with L one-minute candles, oldest first.  A candle is
\* a row whose entry [0] is its time and entry [1] its open price (rows are
\* 1-based here, so row[2] is the code's [1]).
Candles(L) == {[k \in 1..L |-> <<60 * k, f[k]>>] : f \in [1..L -> Prices]}
OHLCResponses == UNION {Candles(L) : L \in 0..MaxCandles}

\* np.median of an empty list.
NaN == "nan"

\* q with x put in before the first greater entry.
RECURSIVE Insert(_, _)
Insert(x, q) ==
    IF q = <<>> THEN <<x>>
    ELSE IF x <= Head(q) THEN <<x>> \o q
    ELSE <<Head(q)>> \o Insert(x, Tail(q))

RECURSIVE Sorted(_)
Sorted(q) == IF q = <<>> THEN <<>> ELSE Insert(Head(q), Sorted(Tail(q)))

\* np.median(q): the middle entry of the sorted values, the mean of the two
\* middle entries when their number is even, nan when there is none.
Median(q) ==
    LET s == Sorted(q)
        h == Len(q) \div 2
    IN  IF q = <<>> THEN NaN
        ELSE IF Len(q) % 2 = 1 THEN Rat(s[h + 1], 1)
        ELSE Rat(s[h] + s[h + 1], 2)

\* get_median_of_last_x_min(n_minutes) is called on its own.
MedianCalled ==
    /\ AutoTradeEntered
    /\ mpc = "request"
    /\ n_minutes \in 0..(MaxCandles + 1)
    /\ ohlc = <<>>
    /\ loop_i = 0
    /\ last_x_minutes_prices = <<>>
    /\ returned_median = None

\* resp = requests.get(pair_url); res = resp.json(); the loop starts with
\* i = n_minutes and an empty list.
GetOHLC ==
    /\ mpc = "request"
    /\ ohlc' \in OHLCResponses
    /\ loop_i' = n_minutes
    /\ last_x_minutes_prices' = <<>>
    /\ mpc' = "loop"
    /\ UNCHANGED <<n_minutes, returned_median>>
    /\ UNCHANGED trade_vars

\* requests.get raises, or the response has no res['result'][pair].
GetOHLCRaises ==
    /\ mpc = "request"
    /\ mpc' = "raised"
    /\ UNCHANGED <<n_minutes, ohlc, loop_i, last_x_minutes_prices,
                   returned_median>>
    /\ UNCHANGED trade_vars

\* for i in range(n_minutes, len(res['result'][pair])):
\*     last_x_minutes_prices.append(float(res['result'][pair][i][1]))
MedianAppend ==
    /\ mpc = "loop"
    /\ loop_i < Len(ohlc)
    /\ last_x_minutes_prices' = Append(last_x_minutes_prices,
                                       ohlc[loop_i + 1][2])
    /\ loop_i' = loop_i + 1
    /\ UNCHANGED <<mpc, n_minutes, ohlc, returned_median>>
    /\ UNCHANGED trade_vars

\* The range is exhausted: return np.median(last_x_minutes_prices).
MedianReturn ==
    /\ mpc = "loop"
    /\ loop_i >= Len(ohlc)
    /\ returned_median' = Median(last_x_minutes_prices)
    /\ mpc' = "done"
    /\ UNCHANGED <<n_minutes, ohlc, loop_i, last_x_minutes_prices>>
    /\ UNCHANGED trade_vars

NextMedian ==
    \/ GetOHLC
    \/ GetOHLCRaises
    \/ MedianAppend
    \/ MedianReturn

SpecMedian == MedianCalled /\ [][NextMedian]_vars

\* ------------------------------------------------------------ properties
\* A tick has run to its end: control is back at the while test.
TickDone == pc = "loop" /\ tick > 0

\* TradeState is what it was when the tick began.
StateAsAtStart ==
    /\ last_trade_action = start.action
    /\ last_trade_price = start.price
    /\ last_trade_timestamp = start.timestamp

\* The balance query, the order placement and the fill query of this tick
\* all succeeded.
AllCallsSucceeded ==
    /\ io.balance = "ok"
    /\ io.place = "accepted"
    /\ io.query = "price"

\* C1: a tick in whose order handling an exception was raised ends with
\* last_trade_action, last_trade_price and last_trade_timestamp equal to
\* their values at the start of the tick, and TradeState changes only in a
\* tick where the fill price was obtained.
C1_FailedTickLeavesStateUnchanged ==
    TickDone =>
        /\ (exc => StateAsAtStart)
        /\ (~StateAsAtStart => io.query = "price")

\* C2: whatever exchange call fails in a tick (the price poll included),
\* the failure is caught: the loop is never left by an exception.
C2_LoopSurvivesEveryFailure == pc # "crashed"

\* C3: a tick that begins in HoldingCurrency, triggers a buy and whose
\* balance query, order placement and fill query all succeed ends in
\* HoldingCoin with last_trade_price the fill price of that order, whatever
\* seed auto_trade was started with.
C3_BuyFillEndsHoldingCoin ==
    (/\ TickDone
     /\ start.action = "sell"
     /\ branch \in {"timeout", "dip"}
     /\ AllCallsSucceeded)
    => (/\ last_trade_action = "buy"
        /\ last_trade_price = exch_fill[res.txid[1]])

\* C4: a tick that begins in HoldingCoin, triggers the sell and whose
\* coin-balance query, order placement and fill query all succeed ends in
\* HoldingCurrency with last_trade_price the fill price the exchange reports
\* for the order placed (the first transaction id of the placement).
C4_SellFillEndsHoldingCurrency ==
    (/\ TickDone
     /\ start.action = "buy"
     /\ branch = "sell"
     /\ AllCallsSucceeded)
    => (/\ last_trade_action = "sell"
        /\ last_trade_price = exch_fill[res.txid[1]])

\* A sell tick that succeeded, with two order ids returned whose fills
\* differ and a fill that differs from the old anchor and the polled price.
C4_Witness ==
    /\ TickDone
    /\ start.action = "buy"
    /\ branch = "sell"
    /\ AllCallsSucceeded
    /\ last_trade_action = "sell"
    /\ Len(res.txid) = 2
    /\ exch_fill[res.txid[1]] # exch_fill[res.txid[2]]
    /\ last_trade_price # start.price
    /\ last_trade_price # new_trade_price

\* Some order request of this tick has the given side.
Placed(side) == \E k \in 1..Len(submitted) : submitted[k].side = side

C8_BuySpendCapped ==
    \A k \in 1..Len(submitted) :
        submitted[k].side = "buy"
        => /\ io.balance = "ok"
           /\ submitted[k].volume.num * new_trade_price
                <= money_balance * submitted[k].volume.den
           /\ submitted[k].volume.num * new_trade_price
                <= SpendCap * submitted[k].volume.den

\* A buy was sent with a balance above the cap: exactly 50 is committed.
C8_Witness ==
    /\ Len(submitted) = 1
    /\ submitted[1].side = "buy"
    /\ money_balance > SpendCap
    /\ submitted[1].volume.num * new_trade_price
         = SpendCap * submitted[1].volume.den

\* C9: every order request is of the side opposite to last_trade_action as
\* it is when the request is sent: sells only while last_trade_action is
\* 'buy', buys only while it is 'sell'.
C9_OrderSideOpposite ==
    /\ \A k \in 1..Len(submitted) :
          \/ submitted[k].held = "buy" /\ submitted[k].side = "sell"
          \/ submitted[k].held = "sell" /\ submitted[k].side = "buy"
    /\ pc = "sell_place" => last_trade_action = "buy"
    /\ pc = "buy_place" => last_trade_action = "sell"

\* A sell request was sent while holding coin, in a tick after a buy tick.
C9_Witness ==
    /\ Len(submitted) = 1
    /\ submitted[1].side = "sell"
    /\ submitted[1].held = "buy"
    /\ order_ledger_sell # Unbound
    /\ tick >= 2

\* C10: from HoldingCurrency, reached by a sell or given as the seed, with
\* every exchange call succeeding, the bot has left HoldingCurrency at the
\* end of the first tick at which elapsed time >= patience.
C10_TimeoutLeavesHoldingCurrency ==
    (/\ TickDone
     /\ ~any_failure
     /\ start.action = "sell"
     /\ time_since_last_trade >= patience)
    => last_trade_action = "buy"

\* C11: every sell order request is a market order whose volume is the
\* whole coin balance the coin-balance query of the same tick returned.
C11_SellWholeBalanceAtMarket ==
    \A k \in 1..Len(submitted) :
        submitted[k].side = "sell"
        => /\ submitted[k].ordertype = "market"
           /\ io.balance = "ok"
           /\ io.value \in CoinBalances
           /\ submitted[k].volume.num = io.value * submitted[k].volume.den

\* A sell request was accepted for the balance of 7 coins.
C11_Witness ==
    /\ Len(submitted) = 1
    /\ submitted[1].side = "sell"
    /\ submitted[1].outcome = "accepted"
    /\ io.value = 7
    /\ submitted[1].volume = [num |-> 7, den |-> 1]

\* The tick ended with a completed transition: the fill price was read and
\* the three assignments of the update were made.
Transitioned == TickDone /\ io.query = "price" /\ ~exc

\* C12 as stated: after a successful transition last_trade_timestamp is the
\* instant at which the fill was resolved and the state was updated.
C12_TimestampIsTransitionInstant ==
    Transitioned => last_trade_timestamp = now

\* C12 amended: after a successful transition last_trade_timestamp is the
\* tick's current_time, read right after the price poll and so at least the
\* settlement delay before the update; on every later tick the elapsed time
\* is current_time minus that value.
C12_TimestampIsTickTime ==
    /\ Transitioned
       => /\ last_trade_timestamp = current_time
          /\ last_trade_timestamp + SettleSleep <= now
    /\ pc = "decide"
       => time_since_last_trade = current_time - last_trade_timestamp

\* A tick after a transition measures its elapsed time from the current_time
\* of the tick that traded: one sleep of the loop plus the settlement delay.
C12_Witness ==
    /\ pc = "decide"
    /\ tick = 2
    /\ last_trade_timestamp = TickSleep
    /\ time_since_last_trade = TickSleep + SettleSleep

\* C13: whatever seed arguments auto_trade is started with, the default
\* last_trade_price included, it never returns on its own.
C13_NeverReturns == pc # "returned"

\* C14: over any sequence of authenticated calls (balance queries, AddOrder,
\* QueryOrders) the nonce of each call is strictly greater than the nonce of
\* the call before it, two calls made back to back in one tick included.
C14_NoncesStrictlyIncrease == nonce_step = <<>> \/ nonce_step[1] >= 1

\* The open prices of the candles first..last of the response.
Opens(first, last) == [k \in 1..(last - first + 1) |-> ohlc[first + k - 1][2]]

\* C15: with lookback n over L candles, 0 <= n <= L, the recent-price query
\* uses exactly the prices of the last n candles, in their order, and returns
\* the median of exactly those prices.
C15_MedianOverLastN ==
    mpc = "done" /\ n_minutes <= Len(ohlc) =>
        LET window == Opens(Len(ohlc) - n_minutes + 1, Len(ohlc))
        IN  /\ last_x_minutes_prices = window
            /\ returned_median = Median(window)

\* C16: an authenticated call whose response is an error (a non-2xx
\* response, an exchange response carrying an error list) does not return to
\* its caller as if it had succeeded: auto_trade is never past place_order or
\* get_order_info holding an error payload as the value returned.
C16_ErrorNeverReturned ==
    /\ pc \in {"sell_settle", "buy_settle"} => res.kind # "error"
    /\ pc \in {"sell_update", "buy_update"} => res_order.kind # "error"

\* In the tick just run no trigger condition held: HoldingCoin with the price
\* below (1+pct)*anchor, or HoldingCurrency with elapsed < patience and the
\* price above (1-pct)*anchor.
NoTrigger ==
    \/ /\ start.action = "buy"
       /\ new_trade_price * trade_strategy_pct.den
             < (trade_strategy_pct.den + trade_strategy_pct.num) * start.price
    \/ /\ start.action = "sell"
       /\ time_since_last_trade < patience
       /\ new_trade_price * trade_strategy_pct.den
             > (trade_strategy_pct.den - trade_strategy_pct.num) * start.price

\* C17: on a tick where no trigger condition holds no authenticated exchange
\* call is made (no balance query, no order, no fill query) and
\* last_trade_action, last_trade_price and last_trade_timestamp are unchanged.
C17_NoTriggerNoCallNoChange ==
    TickDone /\ NoTrigger =>
        /\ io = NoIo
        /\ steps = <<>>
        /\ submitted = <<>>
        /\ StateAsAtStart

C17_Witness ==
    /\ TickDone
    /\ NoTrigger
    /\ start.action = "sell"
    /\ start.price = 4
    /\ new_trade_price = 5
    /\ time_since_last_trade = TickSleep
    /\ branch = "hold"

\* C18: the patience timeout applies only in HoldingCurrency: in HoldingCoin,
\* with the price below (1+pct)*lastTradePrice, no order is placed and the
\* state does not change even when the time elapsed has reached patience.
C18_NoTimeoutInHoldingCoin ==
    ( /\ TickDone
      /\ start.action = "buy"
      /\ time_since_last_trade >= patience
      /\ new_trade_price * trade_strategy_pct.den
            < (trade_strategy_pct.den + trade_strategy_pct.num) * start.price )
    => /\ submitted = <<>>
       /\ io.place = "-"
       /\ branch = "hold"
       /\ StateAsAtStart

C18_Witness ==
    /\ TickDone
    /\ tick = 3
    /\ start.action = "buy"
    /\ start.price = 4
    /\ new_trade_price = 4
    /\ patience = TickSleep
    /\ time_since_last_trade = 3 * TickSleep
    /\ branch = "hold"
    /\ last_trade_action = "buy"

\* The steps of a tick that trades, in the order of the try block.
TradeSteps == <<"balance", "place", "settle", "query", "update">>

\* C19: each tick submits at most one order; the steps of a tick that trades
\* occur in the order balance query, order placement, settlement delay, fill
\* query, state update; the order id of the fill query is the first
\* transaction id returned by the order placement of that same tick.
C19_OneOrderStepsInOrder ==
    /\ Len(submitted) <= 1
    /\ Len(steps) <= Len(TradeSteps)
    /\ steps = SubSeq(TradeSteps, 1, Len(steps))
    /\ io.queried # Unbound =>
          /\ io.place = "accepted"
          /\ io.queried = res.txid[1]

C19_Witness ==
    /\ TickDone
    /\ steps = TradeSteps
    /\ Len(submitted) = 1
    /\ res.txid = <<"OB", "OA">>
    /\ io.queried = "OB"

\* C20: the orders the exchange accepts alternate in side over any run of the
\* loop, also when a step after the placement fails on some tick: two orders
\* accepted one after the other are never of the same side.
C20_AcceptedOrdersAlternate == Len(accepted) = 2 => accepted[1] # accepted[2]

=============================================================================
